---- MODULE Spec2Model ----
(***************************************************************************)
(* Model of the list-based Consul KV provider of proteus-consul            *)
(* (src/source.go): the provider's lifecycle (Watch, Stop), its background *)
(* update worker, the blocking list poll with its cursor, and the          *)
(* translation of a key listing into a two-level parameter table.          *)
(*                                                                         *)
(* Strings are sequences of one-character strings, so that the string      *)
(* functions of the code (HasSuffix, TrimPrefix, Split) are computed.      *)
(***************************************************************************)
EXTENDS Integers, Sequences, FiniteSets, TLC

\* ---------------------------------------------------------------- bounds
\* Largest change index the store reports.
MaxIndex == 2
\* Largest number of poll requests (the synchronous one included).
MaxPolls == 4
\* Largest number of Stop calls that return.
MaxStops == 2
\* Longest key remainder (the part after the prefix) the store holds.
MaxKeyLen == 3
\* Longest set name and parameter name of the key round trip.
MaxNameLen == 2
\* Longest listing drawn as the input of the table construction.
MaxPairs == 1

\* time.Sleep(time.Second), in seconds.
BackoffDelay == 1
\* WaitTime: time.Minute, in seconds.
WaitTime == 60

\* ---------------------------------------------------------------- strings
Sep == "/"
Chars == {"a", "b", Sep}

Str(n) == UNION {[1..k -> Chars] : k \in 0..n}

Empty == <<>>

\* strings.HasPrefix
HasPrefix(s, p) ==
    /\ Len(s) >= Len(p)
    /\ \A i \in 1..Len(p) : s[i] = p[i]

\* strings.HasSuffix
HasSuffix(s, suf) ==
    /\ Len(s) >= Len(suf)
    /\ \A i \in 1..Len(suf) : s[Len(s) - Len(suf) + i] = suf[i]

\* strings.TrimPrefix: s without the leading p, or s itself when p does not lead it.
TrimPrefix(s, p) ==
    IF HasPrefix(s, p) THEN SubSeq(s, Len(p) + 1, Len(s)) ELSE s

\* strings.Split(s, "/"): the substrings between the separators, at least one.
RECURSIVE Split(_)
Split(s) ==
    IF \A i \in 1..Len(s) : s[i] # Sep
    THEN <<s>>
    ELSE LET i == CHOOSE j \in 1..Len(s) :
                      /\ s[j] = Sep
                      /\ \A h \in 1..(j - 1) : s[h] # Sep
         IN  <<SubSeq(s, 1, i - 1)>> \o Split(SubSeq(s, i + 1, Len(s)))

\* NewFromReference as it would be without the strings.HasSuffix test: the
\* prefix is stored as given.
NewFromReference_Raw(rawPrefix) == rawPrefix

\* NewFromReference: the prefix is stored with a trailing separator.
NewFromReference(rawPrefix) ==
    IF ~HasSuffix(rawPrefix, <<Sep>>) THEN rawPrefix \o <<Sep>> ELSE rawPrefix

\* The prefixes the provider is constructed with.
RawPrefixes == {<<"p">>, <<"p", Sep>>}

\* ---------------------------------------------------------------- the store
\* Keys the store returns for a listing: the keys under the prefix, and keys
\* that do not start with the stored prefix (the client drops a leading
\* separator of the prefix it sends, the provider does not).
KeysUnder(pfx) == {pfx \o r : r \in Str(MaxKeyLen)}

ForeignKeys == {<<"a">>, <<"a", Sep, "b">>, <<"a", Sep, "b", Sep, "a">>}

Keys(pfx) == KeysUnder(pfx) \cup ForeignKeys

KVPair(k, v) == [Key |-> k, Value |-> v]

\* Listings of at most n pairs with distinct keys; the value of a pair is its
\* position, so that two pairs never carry the same payload.
Listings(pfx, n) ==
    {l \in UNION {[1..k -> Keys(pfx)] : k \in 0..n} :
        \A i, j \in 1..Len(l) : i # j => l[i] # l[j]}

WithValues(keys) == [i \in 1..Len(keys) |-> KVPair(keys[i], i)]

\* The known-parameter sets the embedder passes to Watch, as (set, name) pairs.
ParamSets ==
    { { <<Empty, <<"a">> >>, << <<"a">>, <<"b">> >> },
      { <<Empty, <<"b">> >>, << <<"b">>, <<"a">> >>, << <<"a">>, Empty >> } }

\* sources.Parameters.Get(setName, paramName): found or not.
Get(params, setName, paramName) == <<setName, paramName>> \in params

\* ---------------------------------------------------------------- state
VARIABLES
    prefix,      \* provider.prefix
    paramNames,  \* provider.paramNames, as the set of known (set, name) pairs
    client,      \* provider.client: "nil" or "set"
    stopFn,      \* provider.stopFn: "nil" or "cancel"
    stopped,     \* provider.stopped, the WaitGroup counter
    waitIx,      \* provider.protected.waitIx, the cursor
    mutex,       \* provider.protected.mutex: "unlocked", or the thread holding it
    ctxDone,     \* runnerCtx.Err() != nil
    epc,         \* position of the embedder (the caller of Watch and Stop)
    wpc,         \* position of the update worker
    wret,        \* the worker's ret, between list and Update
    initial,     \* what Watch returned as its table: <<>> for nil, else <<table>>
    watchErr,    \* the error Watch returned
    stops,       \* number of Stop calls that returned
    polls,       \* number of poll requests sent
    trace,       \* what the provider did, in order
    kvPairs,     \* the listing a table is being built from
    pos,         \* index of the next pair of the range loop
    lst,         \* ret, log lines and oracle lookups of the range loop
    listDone     \* list has returned

vars == <<prefix, paramNames, client, stopFn, stopped, waitIx, mutex, ctxDone, epc, wpc,
          wret, initial, watchErr, stops, polls, trace, kvPairs, pos, lst, listDone>>

provVars == <<prefix, paramNames, client, stopFn, stopped, waitIx, mutex, ctxDone, epc, wpc,
              wret, initial, watchErr, stops, polls, trace>>

listVars == <<kvPairs, pos, lst, listDone>>

\* ---------------------------------------------------------------- the table
\* types.ParamValues{}
EmptyTable == [s \in {} |-> s]

\* set, ok := ret[setName]; if !ok { set = map; ret[setName] = set }; set[paramName] = value
Insert(ret, setName, paramName, value) ==
    LET set  == IF setName \in DOMAIN ret THEN ret[setName] ELSE EmptyTable
        set2 == [n \in (DOMAIN set) \cup {paramName} |->
                    IF n = paramName THEN value ELSE set[n]]
    IN  [s \in (DOMAIN ret) \cup {setName} |-> IF s = setName THEN set2 ELSE ret[s]]

\* A line given to updater.Log by list.
Msg(kind, key) == [kind |-> kind, key |-> key]

\* What one iteration of the range loop did with its pair.
Did(kind, key, setName, paramName) ==
    [kind |-> kind, key |-> key, setName |-> setName, paramName |-> paramName]

\* ret := types.ParamValues{}, with no line logged, no oracle lookup made and
\* no error to return yet.
ListStart ==
    [ret |-> EmptyTable, logs |-> <<>>, lookups |-> <<>>, dids |-> <<>>, err |-> "nil"]

\* The loop body as it would be if the result of paramNames.Get were dropped.
listPair_NoOracle(pfx, params, st, pair) ==
    LET k           == TrimPrefix(pair.Key, pfx)
        keySplitted == Split(k)
        setName     == IF Len(keySplitted) = 2 THEN keySplitted[1] ELSE Empty
        paramName   == IF Len(keySplitted) = 2 THEN keySplitted[2] ELSE keySplitted[1]
    IN  IF k = Empty
        THEN [st EXCEPT !.dids = Append(@, Did("skipped", pair.Key, Empty, Empty))]
        ELSE IF Len(keySplitted) > 2
        THEN [st EXCEPT !.logs = Append(@, Msg("ignoring", pair.Key)),
                        !.dids = Append(@, Did("ignored", pair.Key, Empty, Empty))]
        ELSE [st EXCEPT !.lookups = Append(@, <<setName, paramName>>),
                        !.ret     = Insert(@, setName, paramName, pair.Value),
                        !.dids    = Append(@, Did("inserted", pair.Key, setName, paramName))]

\* The loop body as it would be with the set and the name of a two-segment key
\* taken in the other order.
listPair_Swapped(pfx, params, st, pair) ==
    LET k           == TrimPrefix(pair.Key, pfx)
        keySplitted == Split(k)
        setName     == IF Len(keySplitted) = 2 THEN keySplitted[2] ELSE Empty
        paramName   == keySplitted[1]
    IN  IF k = Empty
        THEN [st EXCEPT !.dids = Append(@, Did("skipped", pair.Key, Empty, Empty))]
        ELSE IF Len(keySplitted) > 2
        THEN [st EXCEPT !.logs = Append(@, Msg("ignoring", pair.Key)),
                        !.dids = Append(@, Did("ignored", pair.Key, Empty, Empty))]
        ELSE IF ~Get(params, setName, paramName)
        THEN [st EXCEPT !.lookups = Append(@, <<setName, paramName>>),
                        !.logs    = Append(@, Msg("nomatch", pair.Key)),
                        !.dids    = Append(@, Did("unknown", pair.Key, setName, paramName))]
        ELSE [st EXCEPT !.lookups = Append(@, <<setName, paramName>>),
                        !.ret     = Insert(@, setName, paramName, pair.Value),
                        !.dids    = Append(@, Did("inserted", pair.Key, setName, paramName))]

\* The loop body as it would be with len(keySplitted) >= 2 as the test of a
\* malformed key.
listPair_TwoIgnored(pfx, params, st, pair) ==
    LET k           == TrimPrefix(pair.Key, pfx)
        keySplitted == Split(k)
        setName     == Empty
        paramName   == keySplitted[1]
    IN  IF k = Empty
        THEN [st EXCEPT !.dids = Append(@, Did("skipped", pair.Key, Empty, Empty))]
        ELSE IF Len(keySplitted) >= 2
        THEN [st EXCEPT !.logs = Append(@, Msg("ignoring", pair.Key)),
                        !.dids = Append(@, Did("ignored", pair.Key, Empty, Empty))]
        ELSE IF ~Get(params, setName, paramName)
        THEN [st EXCEPT !.lookups = Append(@, <<setName, paramName>>),
                        !.logs    = Append(@, Msg("nomatch", pair.Key)),
                        !.dids    = Append(@, Did("unknown", pair.Key, setName, paramName))]
        ELSE [st EXCEPT !.lookups = Append(@, <<setName, paramName>>),
                        !.ret     = Insert(@, setName, paramName, pair.Value),
                        !.dids    = Append(@, Did("inserted", pair.Key, setName, paramName))]

\* One iteration of the range loop of list over kvPairs.
listPair(pfx, params, st, pair) ==
    LET k           == TrimPrefix(pair.Key, pfx)
        keySplitted == Split(k)
        setName     == IF Len(keySplitted) = 2 THEN keySplitted[1] ELSE Empty
        paramName   == IF Len(keySplitted) = 2 THEN keySplitted[2] ELSE keySplitted[1]
    IN  IF k = Empty
        THEN [st EXCEPT !.dids = Append(@, Did("skipped", pair.Key, Empty, Empty))]
        ELSE IF Len(keySplitted) > 2
        THEN [st EXCEPT !.logs = Append(@, Msg("ignoring", pair.Key)),
                        !.dids = Append(@, Did("ignored", pair.Key, Empty, Empty))]
        ELSE IF ~Get(params, setName, paramName)
        THEN [st EXCEPT !.lookups = Append(@, <<setName, paramName>>),
                        !.logs    = Append(@, Msg("nomatch", pair.Key)),
                        !.dids    = Append(@, Did("unknown", pair.Key, setName, paramName))]
        ELSE [st EXCEPT !.lookups = Append(@, <<setName, paramName>>),
                        !.ret     = Insert(@, setName, paramName, pair.Value),
                        !.dids    = Append(@, Did("inserted", pair.Key, setName, paramName))]

\* j, _ := json.MarshalIndent(ret); r.updater.Log(string(j)); return ret, nil
listReturn(st) == [st EXCEPT !.logs = Append(@, Msg("json", Empty))]

RECURSIVE listLoop(_, _, _, _, _)
listLoop(pfx, params, pairs, i, st) ==
    IF i > Len(pairs)
    THEN st
    ELSE listLoop(pfx, params, pairs, i + 1, listPair(pfx, params, st, pairs[i]))

\* The table construction of list, from the listing to the return.
listTable(pfx, params, pairs) == listReturn(listLoop(pfx, params, pairs, 1, ListStart))

\* list as it would be without the assignments to r.protected.waitIx: the cursor
\* keeps its value.
listCursor_Keep(cur, LastIndex) == cur

\* The cursor after a successful kv.List that returned meta.LastIndex.
listCursor(cur, LastIndex) ==
    LET reset == IF LastIndex < cur THEN 0 ELSE cur
    IN  LastIndex

\* ---------------------------------------------------------------- the trace
\* One thing the provider did: op by a thread ("watch", "worker", "stop"), with
\* an index (cursor, returned index or delay), a result and a table.
Ev(op, by, ix, res, tbl) == [op |-> op, by |-> by, ix |-> ix, res |-> res, tbl |-> tbl]

\* opts := &consul.QueryOptions{WaitIndex: r.protected.waitIx, WaitTime: time.Minute}
Request(by, cur) == Ev("request", by, cur, "wait", EmptyTable)

\* The lines list gave to updater.Log, as events of its caller.
LogEvents(by, logs) ==
    [i \in 1..Len(logs) |-> Ev("log", by, 0, logs[i].kind, EmptyTable)]

\* The listing the store answers a poll with when its change index is li: the
\* content of the store is one of two, and changes with each index.
StoreAt(pfx, li) ==
    IF li % 2 = 0
    THEN WithValues(<< pfx \o <<"a", Sep, "b">>, pfx \o <<"a">> >>)
    ELSE WithValues(<< pfx \o <<"b">>, pfx \o <<"a", Sep, "b", Sep, "a">>, pfx >>)

\* ---------------------------------------------------------------- Init
Init ==
    /\ prefix \in {NewFromReference(raw) : raw \in RawPrefixes}
    /\ paramNames = {}
    /\ client = "nil"
    /\ stopFn = "nil"
    /\ stopped = 0
    /\ waitIx = 0
    /\ mutex = "unlocked"
    /\ ctxDone = FALSE
    /\ epc = "new"
    /\ wpc = "none"
    /\ wret = EmptyTable
    /\ initial = <<>>
    /\ watchErr = "none"
    /\ stops = 0
    /\ polls = 0
    /\ trace = <<>>
    /\ kvPairs = <<>>
    /\ pos = 1
    /\ lst = ListStart
    /\ listDone = FALSE

\* ---------------------------------------------------------------- Watch
\* Watch up to the call of list: the address lookup (consulURLFn, that is
\* parametersFromReference), the client construction and the first request.
Watch_Start ==
    /\ epc = "new"
    /\ \E pn \in ParamSets, peek \in {"err", "absent", "value"}, nc \in {"err", "ok"} :
        /\ paramNames' = pn
        /\ IF peek = "err"
           THEN /\ watchErr' = "peek_err"
                /\ epc' = "watch_failed"
                /\ trace' = Append(trace, Ev("peek", "watch", 0, peek, EmptyTable))
                /\ UNCHANGED <<client, polls>>
           ELSE IF peek = "absent"
           THEN /\ watchErr' = "missing_reference"
                /\ epc' = "watch_failed"
                /\ trace' = Append(trace, Ev("peek", "watch", 0, peek, EmptyTable))
                /\ UNCHANGED <<client, polls>>
           ELSE IF nc = "err"
           THEN /\ watchErr' = "client_err"
                /\ epc' = "watch_failed"
                /\ trace' = trace \o << Ev("peek", "watch", 0, peek, EmptyTable),
                                        Ev("log", "watch", 0, "url", EmptyTable),
                                        Ev("newclient", "watch", 0, nc, EmptyTable) >>
                /\ UNCHANGED <<client, polls>>
           ELSE /\ client' = "set"
                /\ polls' = polls + 1
                /\ epc' = "watch_list"
                /\ trace' = trace \o << Ev("peek", "watch", 0, peek, EmptyTable),
                                        Ev("log", "watch", 0, "url", EmptyTable),
                                        Ev("newclient", "watch", 0, nc, EmptyTable),
                                        Request("watch", waitIx) >>
                /\ UNCHANGED watchErr
    /\ UNCHANGED <<prefix, mutex, stopFn, stopped, waitIx, ctxDone, wpc, wret, initial, stops>>
    /\ UNCHANGED listVars

\* Watch as it would be if the error of the first list were returned only
\* after the worker had been started.
Watch_ListErr_Spawn ==
    /\ epc = "watch_list"
    /\ watchErr' = "list_err"
    /\ epc' = "watch_failed"
    /\ stopFn' = "cancel"
    /\ stopped' = stopped + 1
    /\ wpc' = "loop"
    /\ trace' = trace \o << Ev("response", "watch", 0, "err", EmptyTable),
                            Ev("spawn", "watch", 0, "go", EmptyTable) >>
    /\ UNCHANGED <<prefix, mutex, paramNames, client, waitIx, ctxDone, wret, initial, stops,
                   polls>>
    /\ UNCHANGED listVars

\* ret, err := r.list(ctx); if err != nil { return nil, err }
Watch_ListErr ==
    /\ epc = "watch_list"
    /\ watchErr' = "list_err"
    /\ epc' = "watch_failed"
    /\ trace' = Append(trace, Ev("response", "watch", 0, "err", EmptyTable))
    /\ UNCHANGED <<prefix, mutex, paramNames, client, stopFn, stopped, waitIx, ctxDone, wpc,
                   wret, initial, stops, polls>>
    /\ UNCHANGED listVars

\* Watch as it would be with the go statement put before the first list: the
\* worker is started while the poll of Watch is still in flight.
Watch_ListOk_SpawnFirst ==
    /\ epc = "watch_list"
    /\ IF wpc = "none"
       THEN /\ stopFn' = "cancel"
            /\ stopped' = stopped + 1
            /\ wpc' = "loop"
            /\ trace' = Append(trace, Ev("spawn", "watch", 0, "go", EmptyTable))
            /\ UNCHANGED <<waitIx, initial, watchErr, epc>>
       ELSE /\ \E li \in 0..MaxIndex :
                LET r == listTable(prefix, paramNames, StoreAt(prefix, li))
                IN  /\ waitIx' = listCursor(waitIx, li)
                    /\ initial' = <<r.ret>>
                    /\ trace' = trace \o << Ev("response", "watch", li, "ok", r.ret) >>
                                      \o LogEvents("watch", r.logs)
            /\ watchErr' = "nil"
            /\ epc' = "running"
            /\ UNCHANGED <<stopFn, stopped, wpc>>
    /\ UNCHANGED <<prefix, mutex, paramNames, client, ctxDone, wret, stops, polls>>
    /\ UNCHANGED listVars

\* Watch as it would be without r.stopped.Add(1) before the go statement.
Watch_ListOk_NoAdd ==
    /\ epc = "watch_list"
    /\ \E li \in 0..MaxIndex :
        LET r == listTable(prefix, paramNames, StoreAt(prefix, li))
        IN  /\ waitIx' = listCursor(waitIx, li)
            /\ initial' = <<r.ret>>
            /\ trace' = trace \o << Ev("response", "watch", li, "ok", r.ret) >>
                              \o LogEvents("watch", r.logs)
                              \o << Ev("spawn", "watch", 0, "go", EmptyTable) >>
    /\ stopFn' = "cancel"
    /\ wpc' = "loop"
    /\ watchErr' = "nil"
    /\ epc' = "running"
    /\ UNCHANGED <<prefix, mutex, paramNames, client, stopped, ctxDone, wret, stops, polls>>
    /\ UNCHANGED listVars

\* The first list succeeds: the cursor and the table, then the cancel function,
\* stopped.Add(1), go r.updateWorker(runnerCtx) and return ret, nil.
Watch_ListOk ==
    /\ epc = "watch_list"
    /\ \E li \in 0..MaxIndex :
        LET r == listTable(prefix, paramNames, StoreAt(prefix, li))
        IN  /\ waitIx' = listCursor(waitIx, li)
            /\ initial' = <<r.ret>>
            /\ trace' = trace \o << Ev("response", "watch", li, "ok", r.ret) >>
                              \o LogEvents("watch", r.logs)
                              \o << Ev("spawn", "watch", 0, "go", EmptyTable) >>
    /\ stopFn' = "cancel"
    /\ stopped' = stopped + 1
    /\ wpc' = "loop"
    /\ watchErr' = "nil"
    /\ epc' = "running"
    /\ UNCHANGED <<prefix, mutex, paramNames, client, ctxDone, wret, stops, polls>>
    /\ UNCHANGED listVars

\* ---------------------------------------------------------------- Stop
\* Stop with a stop function that may run once only (such as the close of a
\* channel): the second call panics.
Stop_Cancel_Once ==
    /\ epc \in {"new", "watch_failed", "running", "stop_returned"}
    /\ stops < MaxStops
    /\ IF stopFn = "nil" \/ ctxDone
       THEN /\ epc' = "panicked"
            /\ UNCHANGED <<ctxDone, trace>>
       ELSE /\ ctxDone' = TRUE
            /\ epc' = "stop_wait"
            /\ trace' = Append(trace, Ev("cancel", "stop", 0, "stopFn", EmptyTable))
    /\ UNCHANGED <<prefix, mutex, paramNames, client, stopFn, stopped, waitIx, wpc, wret,
                   initial, watchErr, stops, polls>>
    /\ UNCHANGED listVars

\* r.stopFn(): a nil function value panics, the cancel function cancels runnerCtx.
Stop_Cancel ==
    /\ epc \in {"new", "watch_failed", "running", "stop_returned"}
    /\ stops < MaxStops
    /\ IF stopFn = "nil"
       THEN /\ epc' = "panicked"
            /\ UNCHANGED <<ctxDone, trace>>
       ELSE /\ ctxDone' = TRUE
            /\ epc' = "stop_wait"
            /\ trace' = Append(trace, Ev("cancel", "stop", 0, "stopFn", EmptyTable))
    /\ UNCHANGED <<prefix, mutex, paramNames, client, stopFn, stopped, waitIx, wpc, wret,
                   initial, watchErr, stops, polls>>
    /\ UNCHANGED listVars

\* Stop as it would be without r.stopped.Wait(): it returns right after the cancel.
Stop_Wait_NoJoin ==
    /\ epc = "stop_wait"
    /\ epc' = "stop_returned"
    /\ stops' = stops + 1
    /\ UNCHANGED <<prefix, mutex, paramNames, client, stopFn, stopped, waitIx, ctxDone, wpc,
                   wret, initial, watchErr, polls, trace>>
    /\ UNCHANGED listVars

\* r.stopped.Wait() returns when the counter is zero; Stop returns.
Stop_Wait ==
    /\ epc = "stop_wait"
    /\ stopped = 0
    /\ epc' = "stop_returned"
    /\ stops' = stops + 1
    /\ UNCHANGED <<prefix, mutex, paramNames, client, stopFn, stopped, waitIx, ctxDone, wpc,
                   wret, initial, watchErr, polls, trace>>
    /\ UNCHANGED listVars

\* ---------------------------------------------------------------- updateWorker
\* The worker as it would be without defer r.stopped.Done().
Worker_Exit_NoDone ==
    /\ wpc = "loop"
    /\ ctxDone
    /\ wpc' = "exited"
    /\ trace' = Append(trace, Ev("exit", "worker", 0, "done", EmptyTable))
    /\ UNCHANGED <<prefix, mutex, paramNames, client, stopFn, stopped, waitIx, ctxDone, epc,
                   wret, initial, watchErr, stops, polls>>
    /\ UNCHANGED listVars

\* for ctx.Err() == nil fails: the function returns, defer r.stopped.Done().
Worker_Exit ==
    /\ wpc = "loop"
    /\ ctxDone
    /\ wpc' = "exited"
    /\ stopped' = stopped - 1
    /\ trace' = Append(trace, Ev("exit", "worker", 0, "done", EmptyTable))
    /\ UNCHANGED <<prefix, mutex, paramNames, client, stopFn, waitIx, ctxDone, epc, wret,
                   initial, watchErr, stops, polls>>
    /\ UNCHANGED listVars

\* The worker as it would be with an endless loop (for { ... }): the body is
\* entered whatever the state of the context.
Worker_Check_NoTest ==
    /\ wpc = "loop"
    /\ polls < MaxPolls
    /\ wpc' = "call"
    /\ UNCHANGED <<prefix, mutex, paramNames, client, stopFn, stopped, waitIx, ctxDone, epc,
                   wret, initial, watchErr, stops, polls, trace>>
    /\ UNCHANGED listVars

\* for ctx.Err() == nil holds: the body of the loop is entered.
Worker_Check ==
    /\ wpc = "loop"
    /\ ~ctxDone
    /\ polls < MaxPolls
    /\ wpc' = "call"
    /\ UNCHANGED <<prefix, mutex, paramNames, client, stopFn, stopped, waitIx, ctxDone, epc,
                   wret, initial, watchErr, stops, polls, trace>>
    /\ UNCHANGED listVars

\* r.list(ctx) sends its request, with the cursor as WaitIndex; the context may
\* have been cancelled since the test of the loop.
Worker_Poll ==
    /\ wpc = "call"
    /\ wpc' = "list"
    /\ polls' = polls + 1
    /\ trace' = Append(trace, Request("worker", waitIx))
    /\ UNCHANGED <<prefix, mutex, paramNames, client, stopFn, stopped, waitIx, ctxDone, epc,
                   wret, initial, watchErr, stops>>
    /\ UNCHANGED listVars

\* kv.List returns a listing (also when the context was cancelled meanwhile).
Worker_ListOk ==
    /\ wpc = "list"
    /\ \E li \in 0..MaxIndex :
        LET r == listTable(prefix, paramNames, StoreAt(prefix, li))
        IN  /\ waitIx' = listCursor(waitIx, li)
            /\ wret' = r.ret
            /\ trace' = trace \o << Ev("response", "worker", li, "ok", r.ret) >>
                              \o LogEvents("worker", r.logs)
    /\ wpc' = "update"
    /\ UNCHANGED <<prefix, mutex, paramNames, client, stopFn, stopped, ctxDone, epc, initial,
                   watchErr, stops, polls>>
    /\ UNCHANGED listVars

\* The worker as it would be if a poll error ended it (return for continue).
Worker_ListErr_Return ==
    /\ wpc = "list"
    /\ wpc' = "exited"
    /\ stopped' = stopped - 1
    /\ trace' = trace \o << Ev("response", "worker", 0, "err", EmptyTable),
                            Ev("log", "worker", 0, "error", EmptyTable),
                            Ev("exit", "worker", 0, "done", EmptyTable) >>
    /\ UNCHANGED <<prefix, mutex, paramNames, client, stopFn, waitIx, ctxDone, epc, wret,
                   initial, watchErr, stops, polls>>
    /\ UNCHANGED listVars

\* list as it would be if a failed kv.List set the cursor back to 0 before it
\* returned the error.
Worker_ListErr_ResetCursor ==
    /\ wpc = "list"
    /\ wpc' = "sleep"
    /\ waitIx' = 0
    /\ trace' = trace \o << Ev("response", "worker", 0, "err", EmptyTable),
                            Ev("log", "worker", 0, "error", EmptyTable) >>
    /\ UNCHANGED <<prefix, mutex, paramNames, client, stopFn, stopped, ctxDone, epc,
                   wret, initial, watchErr, stops, polls>>
    /\ UNCHANGED listVars

\* kv.List returns an error that is not context.Canceled: log it, then sleep.
Worker_ListErr ==
    /\ wpc = "list"
    /\ wpc' = "sleep"
    /\ trace' = trace \o << Ev("response", "worker", 0, "err", EmptyTable),
                            Ev("log", "worker", 0, "error", EmptyTable) >>
    /\ UNCHANGED <<prefix, mutex, paramNames, client, stopFn, stopped, waitIx, ctxDone, epc,
                   wret, initial, watchErr, stops, polls>>
    /\ UNCHANGED listVars

\* The worker as it would be without the errors.Is(err, context.Canceled) case:
\* the cancellation error is logged and slept on like any other.
Worker_ListCanceled_AsError ==
    /\ wpc = "list"
    /\ ctxDone
    /\ wpc' = "sleep"
    /\ trace' = trace \o << Ev("response", "worker", 0, "canceled", EmptyTable),
                            Ev("log", "worker", 0, "error", EmptyTable) >>
    /\ UNCHANGED <<prefix, mutex, paramNames, client, stopFn, stopped, waitIx, ctxDone, epc,
                   wret, initial, watchErr, stops, polls>>
    /\ UNCHANGED listVars

\* kv.List returns context.Canceled, which it does only for a cancelled context:
\* log "update worker stopped" and continue.
Worker_ListCanceled ==
    /\ wpc = "list"
    /\ ctxDone
    /\ wpc' = "loop"
    /\ trace' = trace \o << Ev("response", "worker", 0, "canceled", EmptyTable),
                            Ev("log", "worker", 0, "stopped", EmptyTable) >>
    /\ UNCHANGED <<prefix, mutex, paramNames, client, stopFn, stopped, waitIx, ctxDone, epc,
                   wret, initial, watchErr, stops, polls>>
    /\ UNCHANGED listVars

\* The worker as it would be with a delay that grows with the failures seen.
Worker_Sleep_Growing ==
    /\ wpc = "sleep"
    /\ wpc' = "loop"
    /\ trace' = Append(trace,
                       Ev("sleep", "worker",
                          BackoffDelay * Cardinality({i \in 1..Len(trace) :
                                                        trace[i].res = "err"}),
                          "slept", EmptyTable))
    /\ UNCHANGED <<prefix, mutex, paramNames, client, stopFn, stopped, waitIx, ctxDone, epc,
                   wret, initial, watchErr, stops, polls>>
    /\ UNCHANGED listVars

\* time.Sleep(time.Second); continue
Worker_Sleep ==
    /\ wpc = "sleep"
    /\ wpc' = "loop"
    /\ trace' = Append(trace, Ev("sleep", "worker", BackoffDelay, "slept", EmptyTable))
    /\ UNCHANGED <<prefix, mutex, paramNames, client, stopFn, stopped, waitIx, ctxDone, epc,
                   wret, initial, watchErr, stops, polls>>
    /\ UNCHANGED listVars

\* The worker as it would be if it published the table Watch returned instead
\* of the one of its own poll.
Worker_Update_Stale ==
    /\ wpc = "update"
    /\ wpc' = "loop"
    /\ trace' = Append(trace, Ev("update", "worker", 0, "called", initial[1]))
    /\ UNCHANGED <<prefix, mutex, paramNames, client, stopFn, stopped, waitIx, ctxDone, epc,
                   wret, initial, watchErr, stops, polls>>
    /\ UNCHANGED listVars

\* r.updater.Update(ret)
Worker_Update ==
    /\ wpc = "update"
    /\ wpc' = "loop"
    /\ trace' = Append(trace, Ev("update", "worker", 0, "called", wret))
    /\ UNCHANGED <<prefix, mutex, paramNames, client, stopFn, stopped, waitIx, ctxDone, epc,
                   wret, initial, watchErr, stops, polls>>
    /\ UNCHANGED listVars

Next ==
    \/ Watch_Start
    \/ Watch_ListErr
    \/ Watch_ListOk
    \/ Stop_Cancel
    \/ Stop_Wait
    \/ Worker_Exit
    \/ Worker_Check
    \/ Worker_Poll
    \/ Worker_ListOk
    \/ Worker_ListErr
    \/ Worker_ListCanceled
    \/ Worker_Sleep
    \/ Worker_Update

Spec == Init /\ [][Next]_vars

\* The worker is a goroutine that the scheduler keeps running: its call of
\* list, the return of kv.List (at the latest after WaitTime, or when its
\* context is cancelled), the Update callback, the sleep and the return at the
\* failed loop test each finish; Wait returns once the counter is zero.
Fairness ==
    /\ WF_vars(Worker_Exit)
    /\ WF_vars(Worker_Poll)
    /\ WF_vars(Worker_ListErr \/ Worker_ListCanceled \/ Worker_ListOk)
    /\ WF_vars(Worker_Sleep)
    /\ WF_vars(Worker_Update)
    /\ WF_vars(Stop_Wait)

SpecLive == Init /\ [][Next]_vars /\ Fairness

\* ---------------------------------------------------------------- list alone
\* The table construction of list on every listing of the store, one iteration
\* of its range loop at a time.
InitList ==
    /\ prefix \in {NewFromReference(raw) : raw \in RawPrefixes}
    /\ paramNames \in ParamSets
    /\ client = "set"
    /\ stopFn = "nil"
    /\ stopped = 0
    /\ waitIx = 0
    /\ mutex = "unlocked"
    /\ ctxDone = FALSE
    /\ epc = "watch_list"
    /\ wpc = "none"
    /\ wret = EmptyTable
    /\ initial = <<>>
    /\ watchErr = "none"
    /\ stops = 0
    /\ polls = 1
    /\ trace = <<>>
    /\ kvPairs \in {WithValues(l) : l \in Listings(prefix, MaxPairs)}
    /\ pos = 1
    /\ lst = ListStart
    /\ listDone = FALSE

\* for _, pair := range kvPairs { ... }
List_Pair ==
    /\ ~listDone
    /\ pos <= Len(kvPairs)
    /\ lst' = listPair(prefix, paramNames, lst, kvPairs[pos])
    /\ pos' = pos + 1
    /\ UNCHANGED <<kvPairs, listDone>>
    /\ UNCHANGED provVars

\* The loop is over: the table is logged and returned with a nil error.
List_Return ==
    /\ ~listDone
    /\ pos = Len(kvPairs) + 1
    /\ lst' = listReturn(lst)
    /\ listDone' = TRUE
    /\ UNCHANGED <<kvPairs, pos>>
    /\ UNCHANGED provVars

NextList == List_Pair \/ List_Return

SpecList == InitList /\ [][NextList]_vars

\* ---------------------------------------------------------------- the key path
\* Characters of set and parameter names.
NameChars == Chars \cup {"."}

NameStr(n) == UNION {[1..k -> NameChars] : k \in 0..n}

\* strings.Join(segs, "/")
RECURSIVE JoinSep(_)
JoinSep(segs) ==
    IF segs = <<>> THEN Empty
    ELSE IF Len(segs) = 1 THEN segs[1]
    ELSE segs[1] \o <<Sep>> \o JoinSep(Tail(segs))

\* The elements path.Clean keeps, of the elements segs of a path: empty and
\* "." elements are dropped, ".." removes the element before it, is dropped at
\* the root and is kept at the start of a path that is not rooted.
RECURSIVE CleanSegs(_, _, _)
CleanSegs(segs, out, rooted) ==
    IF segs = <<>> THEN out
    ELSE LET e == Head(segs)
         IN  IF e = Empty \/ e = <<".">>
             THEN CleanSegs(Tail(segs), out, rooted)
             ELSE IF e = <<".", ".">>
             THEN IF out # <<>> /\ out[Len(out)] # <<".", ".">>
                  THEN CleanSegs(Tail(segs), SubSeq(out, 1, Len(out) - 1), rooted)
                  ELSE IF rooted
                  THEN CleanSegs(Tail(segs), out, rooted)
                  ELSE CleanSegs(Tail(segs), Append(out, e), rooted)
             ELSE CleanSegs(Tail(segs), Append(out, e), rooted)

\* path.Clean
Clean(p) ==
    IF p = Empty THEN <<".">>
    ELSE LET rooted == p[1] = Sep
             body   == JoinSep(CleanSegs(Split(p), <<>>, rooted))
         IN  IF rooted THEN <<Sep>> \o body
             ELSE IF body = Empty THEN <<".">> ELSE body

\* path.Join: the non-empty elements, joined by separators and cleaned.
Join(elems) ==
    LET ne == SelectSeq(elems, LAMBDA e : e # Empty)
    IN  IF ne = <<>> THEN Empty ELSE Clean(JoinSep(ne))

\* The prefixes of the round trip: those of the provider, a rooted one and one
\* with an empty segment.
KeyPrefixes == RawPrefixes \cup {<<Sep, "p">>, <<"p", Sep, Sep>>}

\* The round trip of one parameter: the provider knows the single parameter
\* (set, name), and the store will hold the key built for it.
InitKey ==
    /\ prefix \in {NewFromReference(raw) : raw \in KeyPrefixes}
    /\ paramNames \in {{<<set, name>>} : set \in NameStr(MaxNameLen),
                                          name \in NameStr(MaxNameLen) \ {Empty}}
    /\ client = "set"
    /\ stopFn = "nil"
    /\ stopped = 0
    /\ waitIx = 0
    /\ mutex = "unlocked"
    /\ ctxDone = FALSE
    /\ epc = "watch_list"
    /\ wpc = "none"
    /\ wret = EmptyTable
    /\ initial = <<>>
    /\ watchErr = "none"
    /\ stops = 0
    /\ polls = 1
    /\ trace = <<>>
    /\ kvPairs = <<>>
    /\ pos = 1
    /\ lst = ListStart
    /\ listDone = FALSE

\* consulPath := path.Join(r.prefix, setName, paramName): the key under which
\* the parameter is read, and so the key the store lists for it.
Key_Get ==
    /\ kvPairs = <<>>
    /\ \E ref \in paramNames :
        kvPairs' = <<KVPair(Join(<<prefix, ref[1], ref[2]>>), 1)>>
    /\ UNCHANGED <<pos, lst, listDone>>
    /\ UNCHANGED provVars

NextKey ==
    \/ Key_Get
    \/ kvPairs # <<>> /\ List_Pair
    \/ kvPairs # <<>> /\ List_Return

SpecKey == InitKey /\ [][NextKey]_vars

\* ---------------------------------------------------------------- properties
\* The events of the worker, in order.
WorkerTrace == SelectSeq(trace, LAMBDA e : e.by = "worker")

\* The Update calls, in order.
Updates(t) == SelectSeq(t, LAMBDA e : e.op = "update")

\* The poll requests, in order.
Requests(t) == SelectSeq(t, LAMBDA e : e.op = "request")

\* Position i of the trace holds a request whose answer, at i + 1, is a listing
\* with a change index lower than the cursor the request carried.
LowerIndexAt(i) ==
    /\ i + 1 <= Len(trace)
    /\ trace[i].op = "request"
    /\ trace[i + 1].op = "response"
    /\ trace[i + 1].res = "ok"
    /\ trace[i + 1].ix < trace[i].ix

\* Position j holds the first request after position i.
NextRequestAt(i, j) ==
    /\ j > i
    /\ trace[j].op = "request"
    /\ \A h \in (i + 1)..(j - 1) : trace[h].op # "request"

\* C1: whenever a successful poll returns a change index strictly lower than
\* the stored cursor, the cursor is reset to 0 and the next poll request
\* carries WaitIndex 0.
C1_ResetOnLowerIndex ==
    \A i \in 1..Len(trace) :
        LowerIndexAt(i) =>
            /\ ((\A j \in (i + 1)..Len(trace) : trace[j].op # "request") => waitIx = 0)
            /\ \A j \in 1..Len(trace) : NextRequestAt(i, j) => trace[j].ix = 0

\* C2: once Stop has returned, Update is never invoked again.
C2_NoUpdateAfterStop ==
    [][stops > 0 => Updates(trace)' = Updates(trace)]_vars

\* A poll was in flight when Stop cancelled, it still succeeded and its table
\* was given to Update; then Stop returned.
C2_Witness ==
    /\ stops > 0
    /\ \E c \in 2..Len(trace) :
        /\ trace[c].op = "cancel"
        /\ trace[c - 1].op = "request"
        /\ c + 1 <= Len(trace)
        /\ trace[c + 1].op = "response"
        /\ trace[c + 1].res = "ok"
        /\ \E u \in (c + 2)..Len(trace) : trace[u].op = "update"

\* C3: in every state where Stop has returned, the worker has exited: the wait
\* group is at zero and the last thing the worker did is its exit.
C3_StopJoinsWorker ==
    stops > 0 =>
        /\ wpc = "exited"
        /\ stopped = 0
        /\ WorkerTrace # <<>>
        /\ WorkerTrace[Len(WorkerTrace)].op = "exit"

\* Stop returned after a worker that had polled and slept.
C3_Witness ==
    /\ epc = "stop_returned"
    /\ \E i \in 1..Len(trace) : trace[i].op = "sleep"
    /\ \E i \in 1..Len(trace) : trace[i].op = "update"

\* C4: a Stop call made after an earlier Stop returned does not panic, does not
\* block in Wait, and leaves the provider stopped.
C4_StopIdempotent ==
    stops >= 1 =>
        /\ epc # "panicked"
        /\ (epc = "stop_wait" => stopped = 0)
        /\ ctxDone
        /\ wpc = "exited"

\* Two Stop calls have returned.
C4_Witness == stops >= 2 /\ epc = "stop_returned"

\* The last event of a non-empty sequence of events.
Last(t) == t[Len(t)]

\* Number of events of t, among those at the positions from..to, that are an op.
Count(t, op, from, to) == Cardinality({i \in from..to : t[i].op = op})

\* C5: when Watch fails during start-up it returns the error of the step that
\* failed and no table, no worker is spawned and Update is never invoked.
C5_StartupFailure ==
    epc \in {"watch_failed", "panicked"} /\ watchErr # "none" =>
        /\ initial = <<>>
        /\ wpc = "none"
        /\ stopped = 0
        /\ stopFn = "nil"
        /\ \A i \in 1..Len(trace) : trace[i].op \notin {"update", "spawn"}
        /\ \E i \in 1..Len(trace) :
            /\ \A j \in (i + 1)..Len(trace) : trace[j].by # "watch"
            /\ \/ watchErr = "peek_err" /\ trace[i].op = "peek" /\ trace[i].res = "err"
               \/ watchErr = "missing_reference" /\ trace[i].op = "peek"
                    /\ trace[i].res = "absent"
               \/ watchErr = "client_err" /\ trace[i].op = "newclient"
                    /\ trace[i].res = "err"
               \/ watchErr = "list_err" /\ trace[i].op = "response"
                    /\ trace[i].res = "err"

\* Watch returned the error of its first poll.
C5_Witness == epc = "watch_failed" /\ watchErr = "list_err"

\* C6: the worker exits only after cancellation was signalled; a failed poll
\* of the worker, once or repeatedly, leaves it running and Watch's result
\* untouched, and without cancellation the worker goes on to poll again.
C6_ExitOnlyOnCancel ==
    LET W == WorkerTrace
    IN  /\ wpc = "exited" => ctxDone
        /\ \A j \in 1..Len(trace) :
            trace[j].op = "exit" => \E c \in 1..(j - 1) : trace[c].op = "cancel"
        /\ (\E i \in 1..Len(W) : W[i].res = "err") =>
                watchErr = "nil" /\ epc # "watch_failed"
        /\ \A i \in 1..(Len(W) - 1) :
            W[i].op = "sleep" => W[i + 1].op \in {"request", "exit"}
        /\ (wpc # "none" /\ ~ctxDone) => wpc \in {"loop", "call", "list", "sleep", "update"}

\* Two polls of the worker failed and, not cancelled, it is polling again.
C6_Witness ==
    /\ ~ctxDone
    /\ wpc = "list"
    /\ Cardinality({i \in 1..Len(WorkerTrace) : WorkerTrace[i].res = "err"}) >= 2

\* Position i of the worker's events W holds a poll that failed with an error
\* other than the cancellation.
FailedIn(W, i) == W[i].op = "response" /\ W[i].res = "err"

FailedAt(i) == FailedIn(WorkerTrace, i)

\* C7: a failed background poll is followed by one log line, then one sleep
\* of the fixed delay, then the next poll (or the exit), never by an Update;
\* two failed polls and a successful one give two sleeps and then one Update.
C7_FixedBackoff ==
    LET W == WorkerTrace
        n == Len(W)
    IN  /\ \A i \in 1..n :
            FailedIn(W, i) =>
                /\ i + 1 <= n => W[i + 1].op = "log" /\ W[i + 1].res = "error"
                /\ i + 2 <= n => W[i + 2].op = "sleep" /\ W[i + 2].ix = BackoffDelay
                /\ i + 3 <= n => W[i + 3].op \in {"request", "exit"}
        /\ \A i \in 1..n : W[i].op = "sleep" => i > 2 /\ FailedIn(W, i - 2)
        /\ \A i \in 1..n : \A u \in (i + 9)..n :
            (/\ W[u].op = "update"
             /\ FailedIn(W, i) /\ FailedIn(W, i + 4)
             /\ W[i + 8].op = "response" /\ W[i + 8].res = "ok"
             /\ \A h \in (i + 9)..(u - 1) : W[h].op = "log")
            => /\ Count(W, "sleep", i, u) = 2
               /\ Count(W, "update", i, u) = 1
               /\ W[u].tbl = W[i + 8].tbl

\* The worker's polls failed twice and then succeeded, and Update was called.
C7_Witness ==
    \E i \in 1..Len(WorkerTrace) : \E u \in (i + 9)..Len(WorkerTrace) :
        /\ FailedAt(i) /\ FailedAt(i + 4)
        /\ WorkerTrace[i + 8].op = "response" /\ WorkerTrace[i + 8].res = "ok"
        /\ WorkerTrace[u].op = "update"
        /\ Count(WorkerTrace, "sleep", 1, u) = 2

\* C8: a background poll that returns the cancellation error is followed by
\* the log line of the stop and the exit of the worker: no sleep, no Update
\* and no further poll.
C8_CanceledStops ==
    LET W == WorkerTrace
        n == Len(W)
    IN  \A i \in 1..n :
            (W[i].op = "response" /\ W[i].res = "canceled") =>
                /\ i + 1 <= n => W[i + 1].op = "log" /\ W[i + 1].res = "stopped"
                /\ i + 2 <= n => W[i + 2].op = "exit"
                /\ n <= i + 2
                /\ wpc \in {"loop", "exited"}

\* A poll of the worker was cancelled and the worker has exited.
C8_Witness ==
    /\ wpc = "exited"
    /\ \E i \in 1..Len(WorkerTrace) : WorkerTrace[i].res = "canceled"

\* The (set, name) entries of a table.
Entries(ret) == UNION {{<<s, n>> : n \in DOMAIN ret[s]} : s \in DOMAIN ret}

\* C9: the table list builds holds only entries the oracle reports as found;
\* a key the oracle does not know is logged and left out, and list returns
\* its table with a nil error all the same.
C9_OnlyKnownEntries ==
    /\ \A e \in Entries(lst.ret) : e \in paramNames
    /\ \A i \in 1..Len(lst.dids) :
        lst.dids[i].kind = "unknown" =>
            /\ <<lst.dids[i].setName, lst.dids[i].paramName>> \notin paramNames
            /\ <<lst.dids[i].setName, lst.dids[i].paramName>> \notin Entries(lst.ret)
            /\ \E m \in 1..Len(lst.logs) : lst.logs[m] = Msg("nomatch", kvPairs[i].Key)
    /\ \A i \in 1..Len(lst.dids) :
        lst.dids[i].kind \in {"unknown", "inserted"} =>
            (lst.dids[i].kind = "inserted"
                <=> <<lst.dids[i].setName, lst.dids[i].paramName>> \in paramNames)
    /\ lst.err = "nil"
    /\ (listDone => Len(lst.dids) = Len(kvPairs))

\* list returned after it met a key the oracle does not know.
C9_Witness ==
    /\ listDone
    /\ \E i \in 1..Len(lst.dids) : lst.dids[i].kind = "unknown"

\* The part of a key after the provider's prefix, the whole key when the
\* prefix does not lead it.
Remainder(key) ==
    IF Len(key) >= Len(prefix) /\ SubSeq(key, 1, Len(prefix)) = prefix
    THEN SubSeq(key, Len(prefix) + 1, Len(key))
    ELSE key

\* The positions of the separators of a string.
SepsOf(s) == {i \in 1..Len(s) : s[i] = Sep}

\* C10: of a key, after the prefix is stripped: an empty remainder is skipped;
\* one segment is the name of set ""; two segments are the set and the name;
\* more than two are skipped with a diagnostic and never given to the oracle.
C10_KeyMapping ==
    /\ Len(lst.dids) = pos - 1
    /\ \A i \in 1..Len(lst.dids) :
        LET key  == kvPairs[i].Key
            rem  == Remainder(key)
            seps == SepsOf(rem)
            d    == lst.dids[i]
        IN  /\ d.key = key
            /\ rem = Empty => d.kind = "skipped"
            /\ (rem # Empty /\ seps = {}) =>
                    /\ d.kind \in {"unknown", "inserted"}
                    /\ d.setName = Empty
                    /\ d.paramName = rem
            /\ Cardinality(seps) = 1 =>
                    LET c == CHOOSE j \in seps : TRUE
                    IN  /\ d.kind \in {"unknown", "inserted"}
                        /\ d.setName = SubSeq(rem, 1, c - 1)
                        /\ d.paramName = SubSeq(rem, c + 1, Len(rem))
            /\ Cardinality(seps) > 1 =>
                    /\ d.kind = "ignored"
                    /\ \E m \in 1..Len(lst.logs) : lst.logs[m] = Msg("ignoring", key)
            /\ d.kind = "inserted" =>
                    /\ d.setName \in DOMAIN lst.ret
                    /\ d.paramName \in DOMAIN lst.ret[d.setName]
    /\ Len(lst.lookups) =
            Cardinality({i \in 1..Len(lst.dids) :
                            /\ Remainder(kvPairs[i].Key) # Empty
                            /\ Cardinality(SepsOf(Remainder(kvPairs[i].Key))) <= 1})
    /\ \A q \in 1..Len(lst.lookups) :
        \E i \in 1..Len(lst.dids) :
            /\ lst.dids[i].kind \in {"unknown", "inserted"}
            /\ lst.lookups[q] = <<lst.dids[i].setName, lst.dids[i].paramName>>

\* list returned after a key of two segments that it kept.
C10_Witness ==
    /\ listDone
    /\ \E i \in 1..Len(lst.dids) :
        /\ lst.dids[i].kind = "inserted"
        /\ Cardinality(SepsOf(Remainder(kvPairs[i].Key))) = 1
        /\ lst.dids[i].setName # Empty

\* The successful polls of the worker, in order.
WorkerOks == SelectSeq(trace, LAMBDA e : e.by = "worker" /\ e.op = "response" /\ e.res = "ok")

\* C11: the table of the synchronous first poll is returned by Watch and not
\* given to Update; every successful poll of the worker is followed by one
\* Update with the table of that poll, and the Updates come in the order of
\* their polls.
C11_UpdatePerPoll ==
    LET W == WorkerTrace
        n == Len(W)
        U == Updates(trace)
        O == WorkerOks
    IN  /\ \A i \in 1..n :
            (W[i].op = "response" /\ W[i].res = "ok") =>
                \A u \in (i + 1)..n :
                    (W[u].op # "log" /\ \A h \in (i + 1)..(u - 1) : W[h].op = "log")
                        => W[u].op = "update" /\ W[u].tbl = W[i].tbl
        /\ \A u \in 1..n :
            W[u].op = "update" =>
                \E i \in 1..(u - 1) :
                    /\ W[i].op = "response" /\ W[i].res = "ok"
                    /\ \A h \in (i + 1)..(u - 1) : W[h].op = "log"
        /\ \A k \in 1..Len(U) : U[k].by = "worker"
        /\ Len(U) <= Len(O)
        /\ Len(O) <= Len(U) + 1
        /\ (Len(O) = Len(U) + 1 <=> wpc = "update")
        /\ \A k \in 1..Len(U) : U[k].tbl = O[k].tbl
        /\ initial # <<>> =>
                \E i \in 1..Len(trace) :
                    /\ trace[i].by = "watch" /\ trace[i].op = "response"
                    /\ trace[i].res = "ok" /\ trace[i].tbl = initial[1]

\* Update was called twice, with two different tables.
C11_Witness ==
    /\ Len(Updates(trace)) >= 2
    /\ Updates(trace)[1].tbl # Updates(trace)[2].tbl

\* A step reads or writes the cursor: list builds its request from waitIx, or
\* compares the returned index with waitIx and assigns it.
CursorTouched ==
    \E i \in (Len(trace) + 1)..Len(trace') :
        \/ trace'[i].op = "request"
        \/ trace'[i].op = "response" /\ trace'[i].res = "ok"

\* C12: every read and every write of the cursor happens while the provider's
\* mutex is held.
C12_CursorUnderMutex ==
    [][CursorTouched => mutex # "unlocked"]_vars

\* The caller of Watch is inside list.
WatchInList == epc = "watch_list"

\* The worker is inside list.
WorkerInList == wpc \in {"call", "list"}

\* C13: a started provider has one worker, started after the synchronous
\* first poll of Watch has finished, so that at most one of the two threads
\* is reading or writing the cursor.
C13_SingleCursorThread ==
    /\ Count(trace, "spawn", 1, Len(trace)) <= 1
    /\ stopped \in {0, 1}
    /\ (wpc # "none" <=> Count(trace, "spawn", 1, Len(trace)) = 1)
    /\ ~(WatchInList /\ WorkerInList)
    /\ WatchInList => wpc = "none"
    /\ \A i \in 1..Len(trace) :
        trace[i].by = "worker" => \A j \in (i + 1)..Len(trace) : trace[j].by # "watch"
    /\ \A i \in 1..Len(trace) :
        trace[i].op = "spawn" =>
            \E h \in 1..(i - 1) :
                trace[h].by = "watch" /\ trace[h].op = "response" /\ trace[h].res = "ok"

\* The one worker is polling, after Watch returned.
C13_Witness ==
    /\ epc = "running"
    /\ wpc = "list"
    /\ Count(trace, "spawn", 1, Len(trace)) = 1

\* C14: a Stop call that has cancelled the context of a started provider
\* eventually returns, whichever step the worker was in.
C14_StopReturns == (epc = "stop_wait") ~> (epc = "stop_returned")

\* Stop returned after it had cancelled a worker that was in its backoff, and
\* after it had cancelled one whose poll was in flight.
C14_Witness ==
    /\ epc = "stop_returned"
    /\ \E c \in 2..Len(trace) :
        /\ trace[c].op = "cancel"
        /\ \/ trace[c - 1].op = "log" /\ trace[c - 1].res = "error"
           \/ trace[c - 1].op = "request"

\* A name that is one path element: it holds no separator and is not "." or "..".
Plain(name) ==
    /\ \A i \in 1..Len(name) : name[i] # Sep
    /\ name \notin {<<".">>, <<".", ".">>}

\* A prefix without an empty segment: no two separators follow each other.
PlainPrefix(pfx) == \A i \in 1..(Len(pfx) - 1) : ~(pfx[i] = Sep /\ pfx[i + 1] = Sep)

Mapping(rem) ==
    IF SepsOf(rem) = {}
    THEN <<Empty, rem>>
    ELSE LET c == CHOOSE j \in SepsOf(rem) : TRUE
         IN  <<SubSeq(rem, 1, c - 1), SubSeq(rem, c + 1, Len(rem))>>

\* The pairs list has gone through whose stripped key is not empty and has at
\* most one separator.
Mapped == {i \in 1..Len(lst.dids) :
              /\ Remainder(kvPairs[i].Key) # Empty
              /\ Cardinality(SepsOf(Remainder(kvPairs[i].Key))) <= 1}

\* C16 as stated: a stripped key with one separator is mapped to its two
\* segments; one with no separator, or with more than two, is discarded and
\* contributes no entry to the table.
C16_OneSeparatorOnly ==
    \A i \in 1..Len(lst.dids) :
        LET rem == Remainder(kvPairs[i].Key)
            n   == Cardinality(SepsOf(rem))
        IN  /\ n = 1 => <<lst.dids[i].setName, lst.dids[i].paramName>> = Mapping(rem)
            /\ (n = 0 \/ n > 2) => lst.dids[i].kind \in {"skipped", "ignored"}

\* C16 as amended: one separator gives the two segments as (set, name); no
\* separator gives set "" and the key as name; an empty key and a key with two
\* or more separators are discarded; the table holds the entries of the first
\* two kinds that the oracle knows, and no other.
C16_SeparatorCount ==
    /\ \A i \in 1..Len(lst.dids) :
        LET rem == Remainder(kvPairs[i].Key)
            d   == lst.dids[i]
        IN  IF i \in Mapped
            THEN /\ <<d.setName, d.paramName>> = Mapping(rem)
                 /\ d.kind = (IF Mapping(rem) \in paramNames THEN "inserted" ELSE "unknown")
            ELSE d.kind = (IF rem = Empty THEN "skipped" ELSE "ignored")
    /\ Entries(lst.ret) =
            {Mapping(Remainder(kvPairs[i].Key)) : i \in Mapped} \cap paramNames

\* list returned after it kept a key without separator in set "".
C16_Witness ==
    /\ listDone
    /\ \E i \in 1..Len(lst.dids) :
        /\ SepsOf(Remainder(kvPairs[i].Key)) = {}
        /\ lst.dids[i].kind = "inserted"
        /\ <<Empty, Remainder(kvPairs[i].Key)>> \in Entries(lst.ret)

\* The requests and the responses of the polls, in order: they alternate, as
\* one thread at a time is inside list.
PollEvents == SelectSeq(trace, LAMBDA e : e.op \in {"request", "response"})

\* Position i of the poll events p holds a listing whose index is not lower
\* than the cursor its request carried.
NotLowerAt(p, i) ==
    /\ i > 1
    /\ p[i].op = "response"
    /\ p[i].res = "ok"
    /\ p[i].ix >= p[i - 1].ix

\* The position of the last listing received before position j of p, or 0.
LastOkBefore(p, j) ==
    LET oks == {i \in 1..(j - 1) : p[i].op = "response" /\ p[i].res = "ok"}
    IN  IF oks = {} THEN 0 ELSE CHOOSE i \in oks : \A h \in oks : h <= i

\* C17: the first poll is sent with cursor 0; after a successful poll whose
\* index is not lower than the cursor, the cursor is that index, and every
\* request sent until the next successful poll carries it as WaitIndex.
C17_CursorFollowsIndex ==
    LET p    == PollEvents
        last == LastOkBefore(p, Len(p) + 1)
    IN  /\ \A j \in 1..Len(p) :
            p[j].op = "request" =>
                LET i == LastOkBefore(p, j)
                IN  IF i = 0
                    THEN p[j].ix = 0
                    ELSE NotLowerAt(p, i) => p[j].ix = p[i].ix
        /\ (last > 0 /\ NotLowerAt(p, last)) => waitIx = p[last].ix

\* The worker polled with cursor MaxIndex after a poll, itself sent with a
\* positive cursor, that returned MaxIndex.
C17_Witness ==
    \E i \in 2..Len(PollEvents) :
        /\ NotLowerAt(PollEvents, i)
        /\ PollEvents[i - 1].ix > 0
        /\ PollEvents[i].ix = MaxIndex
        /\ i < Len(PollEvents)
        /\ PollEvents[i + 1].op = "request"
        /\ PollEvents[i + 1].ix = MaxIndex

\* C18: Stop completes without a panic in every state of the provider, also
\* when Watch was never called or returned a start-up error.
C18_StopNeverPanics == epc # "panicked"

\* The positions of the trace after the first cancel where the worker did
\* something.
AfterCancel ==
    {j \in 1..Len(trace) :
        /\ trace[j].by = "worker"
        /\ \E c \in 1..(j - 1) : trace[c].op = "cancel"}

\* C19 (safety part): after the cancel the worker calls Update at most once,
\* and after that Update, or after a sleep that ends after the cancel, the
\* only thing the worker still does is exit.
C19_NoIterationAfterCancel ==
    /\ Cardinality({j \in AfterCancel : trace[j].op = "update"}) <= 1
    /\ \A u \in AfterCancel :
        trace[u].op \in {"update", "sleep"} =>
            /\ wpc \in {"loop", "exited"}
            /\ \A j \in AfterCancel : j > u => trace[j].op = "exit"

\* C19: the above in every state, and once the cancel is signalled the worker
\* exits.
C19_WindDown == []C19_NoIterationAfterCancel /\ (ctxDone ~> (wpc = "exited"))

\* The cancel came while a poll was in flight; the poll succeeded, its table
\* went to Update, and the worker exited right after.
C19_Witness ==
    /\ wpc = "exited"
    /\ \E u \in AfterCancel :
        /\ trace[u].op = "update"
        /\ \E r \in AfterCancel : r < u /\ trace[r].op = "response" /\ trace[r].res = "ok"
        /\ u < Len(trace)
        /\ trace[u + 1].op = "exit"

\* Position i of the poll events p holds the failure of a poll.
PollFailedAt(p, i) ==
    /\ i > 1
    /\ p[i].op = "response"
    /\ p[i].res # "ok"

\* C20: a poll that fails returns no table and leaves the cursor as it was: no
\* Update is called for it, and the request that follows it carries the
\* WaitIndex of the failed one.
C20_FailedPollKeepsCursor ==
    LET p == PollEvents
    IN  /\ \A i \in 1..Len(p) :
            PollFailedAt(p, i) =>
                /\ p[i].tbl = EmptyTable
                /\ i = Len(p) => waitIx = p[i - 1].ix
                /\ i < Len(p) => p[i + 1].ix = p[i - 1].ix
        /\ \A i \in 1..Len(trace) :
            (trace[i].op = "response" /\ trace[i].res # "ok") =>
                \A u \in (i + 1)..Len(trace) :
                    trace[u].op = "update" =>
                        \E h \in (i + 1)..(u - 1) : trace[h].op = "request"

\* A poll sent with a positive cursor failed, and the worker polled again with
\* the same cursor.
C20_Witness ==
    \E i \in 2..Len(PollEvents) :
        /\ PollFailedAt(PollEvents, i)
        /\ PollEvents[i - 1].ix > 0
        /\ i < Len(PollEvents)
        /\ PollEvents[i + 1].op = "request"
        /\ PollEvents[i + 1].ix = PollEvents[i - 1].ix

====
